---- MODULE Spec2Model ----
(***************************************************************************)
(* Model of the investment-dashboard macro pipeline: the provider clients  *)
(* (FRED, Yahoo Finance, Trading Economics, akshare), the                  *)
(* MacroIndicatorRepository over the macro_indicator table, and the        *)
(* MacroDataService save routines with their delete-then-insert upsert.    *)
(*                                                                         *)
(* Encodings.  Time is counted in ticks, TicksPerDay ticks to a calendar   *)
(* day.  A float is an integer, with the one value NaN standing for        *)
(* float('nan').  Python None is the empty tuple and a present optional x  *)
(* is the one-element tuple <<x>>.  A pandas Series is a function from     *)
(* its index (ticks) to floats; a dict is a function from its keys.  The   *)
(* outcome of a call that may raise is a record with a raised flag.        *)
(***************************************************************************)
EXTENDS Integers, FiniteSets, Sequences, TLC

\* ---------------------------------------------------------------- bounds
MaxDay == 1
TicksPerDay == 2
MaxValue == 2
MaxObs == 2
MaxId == 2

Days == 0..MaxDay
MaxTime == (MaxDay + 1) * TicksPerDay - 1
Times == 0..MaxTime
Values == 1..MaxValue
NaN == 0 - (2 * MaxValue + 1)
Floats == Values \cup {NaN}

None == <<>>
Some(x) == <<x>>
IsNone(o) == o = <<>>
The(o) == o[1]

Raise == [raised |-> TRUE, val |-> <<>>]
Return(x) == [raised |-> FALSE, val |-> <<x>>]

\* ------------------------------------------------------- pandas / floats
\* pd.notna / Series.dropna / Series.empty / len
notna(v) == v # NaN
dropna(s) == [d \in {x \in DOMAIN s : notna(s[x])} |-> s[d]]
empty(s) == DOMAIN s = {}
len(s) == Cardinality(DOMAIN s)

\* float subtraction: NaN propagates
fsub(a, b) == IF a = NaN \/ b = NaN THEN NaN ELSE a - b

\* Series.align(other) with pandas' default join='outer': both operands are
\* reindexed to the union of the two indexes, a missing label becoming NaN
align(s, o) ==
  LET idx == DOMAIN s \cup DOMAIN o
  IN  << [d \in idx |-> IF d \in DOMAIN s THEN s[d] ELSE NaN],
         [d \in idx |-> IF d \in DOMAIN o THEN o[d] ELSE NaN] >>

\* Series - Series on identically indexed operands
ssub(a, b) == [d \in DOMAIN a |-> fsub(a[d], b[d])]

\* Series.iloc[-1]: the value at the last (greatest) index label
Last(s) == s[CHOOSE d \in DOMAIN s : \A e \in DOMAIN s : e <= d]

\* float(Series): pandas converts a one-element Series and raises TypeError
\* for any other length
float_of_series(s) ==
  IF len(s) = 1 THEN Return(Last(s)) ELSE Raise

\* dict.get(key): None when the key is missing
get(dict, key) == IF key \in DOMAIN dict THEN dict[key] ELSE None

\* ------------------------------------------------------ provider inputs
\* FRED observations are dated at the start of a day
DayStart(d) == d * TicksPerDay
ObsDates == {DayStart(d) : d \in Days}

SeriesOver(vals) ==
  UNION {[D -> vals] : D \in {X \in SUBSET ObsDates : Cardinality(X) <= MaxObs}}

\* what fred.get_series does: raise, or return a Series (NaN for a missing
\* observation, possibly no observation at all)
RawFred == {[err |-> TRUE, s |-> <<>>]}
           \cup {[err |-> FALSE, s |-> s] : s \in SeriesOver(Floats)}

\* the same without NaN observations: get_fred_series_value drops them, so
\* these inputs already produce every result the client can return
RawFredClean == {[err |-> TRUE, s |-> <<>>]}
                \cup {[err |-> FALSE, s |-> s] : s \in SeriesOver(Values)}


\* what yf.Ticker(symbol).history does: raise, or return a DataFrame whose
\* rows are the index of close and whose columns may lack 'Close'
RawYahoo ==
  {[err |-> TRUE, columns |-> {}, close |-> <<>>]}
  \cup {[err |-> FALSE, columns |-> {"Close"}, close |-> s] : s \in SeriesOver(Floats)}
  \cup {[err |-> FALSE, columns |-> {}, close |-> s] : s \in SeriesOver({NaN})}

\* what the Trading Economics request does: raise (HTTP error, malformed
\* JSON), or return rows that may lack the 'Value' column
RawTE == {[err |-> TRUE, columns |-> {}, value |-> <<>>]}
         \cup {[err |-> FALSE, columns |-> {"Value"}, value |-> s] :
                 s \in SeriesOver(Floats)}
         \cup {[err |-> FALSE, columns |-> {}, value |-> s] :
                 s \in SeriesOver({NaN})}

\* what ak.macro_china_trade_balance does: raise, or return a frame with one
\* row per month and the export and import growth columns (either may be
\* missing from the payload)
TradeColumns == {"exports", "imports"}
RawAkshare ==
  {[err |-> TRUE, columns |-> {}, exports |-> <<>>, imports |-> <<>>]}
  \cup {[err |-> FALSE, columns |-> TradeColumns, exports |-> p[1], imports |-> p[2]] :
          p \in {q \in SeriesOver(Floats) \X SeriesOver(Floats) :
                   DOMAIN q[1] = DOMAIN q[2]}}
  \cup {[err |-> FALSE, columns |-> c, exports |-> s, imports |-> s] :
          c \in (SUBSET TradeColumns) \ {TradeColumns}, s \in SeriesOver({NaN})}

\* ------------------------------------------------- FredMacroDataClient
fetch_fred_series(raw) ==
  IF raw.err THEN Raise ELSE Return(raw.s)

\* a helper whose except clause raises again instead of returning None
get_fred_series_value_reraises(raw) ==
  LET r == fetch_fred_series(raw)
  IN  IF r.raised THEN Raise
      ELSE LET result == dropna(The(r.val))
           IN  IF empty(result) THEN Return(None) ELSE Return(Some(result))

\* try: dropna, None when nothing is left; except: return None
get_fred_series_value(raw) ==
  LET r == fetch_fred_series(raw)
  IN  IF r.raised THEN Return(None)
      ELSE LET result == dropna(The(r.val))
           IN  IF empty(result) THEN Return(None) ELSE Return(Some(result))

leading_series_map ==
  [leading_index_us |-> "USALOLITOAASTSAM", leading_index_de |-> "BBKMLEIX"]
consumer_series_map ==
  [consumer_credit |-> "TOTALSL", consumer_sentiment |-> "UMCSENT",
   disposable_income |-> "DSPIC96"]
financial_series_map ==
  [national_financial_conditions |-> "NFCI",
   adjusted_financial_conditions |-> "ANFCI"]
treasury_series_ids == [dgs3mo |-> "DGS3MO", dgs2 |-> "DGS2", dgs10 |-> "DGS10"]

SeriesIds(series_map) == {series_map[k] : k \in DOMAIN series_map}

\* the loop shared by get_leading_indicators, get_consumer_indices and
\* get_financial_condition_indices: a key is set only when its helper call
\* returned a value, and is left out of the dict otherwise
fetch_group(series_map, raw) ==
  LET values == [k \in DOMAIN series_map |-> get_fred_series_value(raw[series_map[k]])]
  IN  IF \E k \in DOMAIN series_map : values[k].raised THEN Raise
      ELSE Return([k \in {x \in DOMAIN series_map : ~IsNone(The(values[x].val))} |->
                     IF ~empty(The(The(values[k].val))) THEN The(values[k].val) ELSE None])

get_leading_indicators(raw) == fetch_group(leading_series_map, raw)
get_consumer_indices(raw) == fetch_group(consumer_series_map, raw)
get_financial_condition_indices(raw) == fetch_group(financial_series_map, raw)

\* a spread that takes a missing operand as zero instead of giving None
spread_missing_operand_as_zero(a, b) ==
  IF ~IsNone(a) /\ ~IsNone(b)
  THEN LET al == align(The(a), The(b)) IN Some(ssub(al[1], al[2]))
  ELSE IF ~IsNone(a) THEN a
  ELSE IF ~IsNone(b) THEN Some([d \in DOMAIN The(b) |-> 0 - The(b)[d]])
  ELSE None

\* spread of two optional series: align on the index, then subtract
spread(a, b) ==
  IF ~IsNone(a) /\ ~IsNone(b)
  THEN LET al == align(The(a), The(b)) IN Some(ssub(al[1], al[2]))
  ELSE None

get_treasury_yields_and_spreads(raw) ==
  LET out == [k \in DOMAIN treasury_series_ids |->
                get_fred_series_value(raw[treasury_series_ids[k]])]
      series_data == [k \in {x \in DOMAIN treasury_series_ids : ~IsNone(The(out[x].val))} |->
                        IF ~empty(The(The(out[k].val))) THEN The(out[k].val) ELSE None]
      dgs10_series == get(series_data, "dgs10")
      dgs2_series == get(series_data, "dgs2")
      dgs3mo_series == get(series_data, "dgs3mo")
  IN  IF \E k \in DOMAIN treasury_series_ids : out[k].raised THEN Raise
      ELSE Return([dgs3mo |-> dgs3mo_series,
                   dgs2 |-> dgs2_series,
                   dgs10 |-> dgs10_series,
                   spread_10y_2y |-> spread(dgs10_series, dgs2_series),
                   spread_10y_3m |-> spread(dgs10_series, dgs3mo_series)])

\* ---------------------------------------------------- YahooFinanceClient
SYMBOLS == [crude_oil |-> "CL=F", gold |-> "GC=F"]

\* df.empty -> pd.DataFrame() (no rows, no columns)
fetch_commodity_data(raw) ==
  IF raw.err THEN Raise
  ELSE IF empty(raw.close) THEN Return([columns |-> {}, close |-> <<>>])
  ELSE Return([columns |-> raw.columns, close |-> raw.close])

\* data['Close'].iloc[-1] with no dropna; KeyError is caught like any error
get_latest_price(raw) ==
  LET r == fetch_commodity_data(raw)
  IN  IF r.raised THEN Return(None)
      ELSE LET data == The(r.val)
           IN  IF empty(data.close) THEN Return(None)
               ELSE IF "Close" \notin data.columns THEN Return(None)
               ELSE Return(Some(Last(data.close)))

get_commodity_prices(raw) ==
  LET out == [k \in DOMAIN SYMBOLS |-> get_latest_price(raw[SYMBOLS[k]])]
  IN  IF \E k \in DOMAIN SYMBOLS : out[k].raised THEN Raise
      ELSE Return([k \in DOMAIN SYMBOLS |-> The(out[k].val)])

\* ------------------------------------------------ TradingEconomicsClient
indicators_map ==
  [manufacturing_pmi |-> "ISM Manufacturing PMI",
   services_pmi |-> "ISM Services PMI",
   composite_pmi |-> "Composite PMI"]

\* `if not data` -> empty frame
fetch_indicator(raw) ==
  IF raw.err THEN Raise
  ELSE IF empty(raw.value) THEN Return([columns |-> {}, value |-> <<>>])
  ELSE Return([columns |-> raw.columns, value |-> raw.value])

get_latest_indicator_value(raw) ==
  LET r == fetch_indicator(raw)
  IN  IF r.raised THEN Return(None)
      ELSE LET data == The(r.val)
           IN  IF empty(data.value) THEN Return(None)
               ELSE IF "Value" \in data.columns
                    THEN IF ~empty(dropna(data.value))
                         THEN Return(Some(Last(dropna(data.value))))
                         ELSE Return(None)
                    ELSE Return(None)

get_pmi_indicators(raw) ==
  LET out == [k \in DOMAIN indicators_map |-> get_latest_indicator_value(raw[indicators_map[k]])]
  IN  IF \E k \in DOMAIN indicators_map : out[k].raised THEN Raise
      ELSE Return([k \in DOMAIN indicators_map |-> The(out[k].val)])

\* --------------------------------------------------- AkshareFinanceClient
filter_window(s, start_date, end_date) ==
  [d \in {x \in DOMAIN s : x >= start_date /\ x <= end_date} |-> s[d]]

trade_none == [exports_yoy |-> None, imports_yoy |-> None]

\* the try block: the column values are taken as they are
\* (astype(float).values), so a NaN of the payload stays in the returned
\* series; a provider error or a missing column (KeyError) raises
trade_balance_try(raw, start_date, end_date) ==
  IF raw.err THEN Raise
  ELSE IF empty(raw.exports) THEN Return(trade_none)
  ELSE LET exports_f == filter_window(raw.exports, start_date, end_date)
           imports_f == filter_window(raw.imports, start_date, end_date)
       IN  IF empty(exports_f) THEN Return(trade_none)
           ELSE IF raw.columns # TradeColumns THEN Raise
           ELSE Return([exports_yoy |-> Some(exports_f),
                        imports_yoy |-> Some(imports_f)])

\* except Exception: return the all-None dict
get_trade_balance(raw, start_date, end_date) ==
  LET r == trade_balance_try(raw, start_date, end_date)
  IN  IF r.raised THEN Return(trade_none) ELSE r


\* ----------------------------------------------- MacroIndicatorRepository
VARIABLES store, nextId, now, last, resp, lookup, request, calls

vars == <<store, nextId, now, last, resp, lookup, request, calls>>

Ids(rows) == {r.id : r \in rows}

start_of_day(date_time) == (date_time \div TicksPerDay) * TicksPerDay

\* a lookup whose upper bound is the given instant instead of the end of
\* its day
end_of_day_is_the_instant(date_time) == date_time

end_of_day(date_time) == start_of_day(date_time) + (TicksPerDay - 1)

\* a lookup that compares the timestamp instead of the calendar day
matching_exact_timestamp(rows, indicator_type, date_time) ==
  {r \in rows : r.type = indicator_type /\ r.date_time = date_time}

\* a lookup whose query filters on the day only, not on the type
matching_any_type(rows, indicator_type, date_time) ==
  {r \in rows : /\ r.date_time >= start_of_day(date_time)
                /\ r.date_time <= end_of_day(date_time)}

\* the rows the query of find_by_type_and_date selects
matching(rows, indicator_type, date_time) ==
  {r \in rows : /\ r.type = indicator_type
                /\ r.date_time >= start_of_day(date_time)
                /\ r.date_time <= end_of_day(date_time)}

\* a lookup that never finds the stored row
find_nothing(rows, indicator_type, date_time) == {None}

\* .first() on a query with no ORDER BY: None when nothing matches, else
\* one of the matching rows (which one is up to the database)
find_by_type_and_date(rows, indicator_type, date_time) ==
  LET m == matching(rows, indicator_type, date_time)
  IN  IF m = {} THEN {None} ELSE {Some(r) : r \in m}

\* the row create() builds: the id comes from the autoincrement column and
\* creation_data_time from datetime.utcnow()
new_indicator(id, type, name, value, date_time, is_leading_indicator, region, utcnow) ==
  [id |-> id, type |-> type, name |-> name, value |-> value,
   date_time |-> date_time, is_leading_indicator |-> is_leading_indicator,
   region |-> region, creation_data_time |-> utcnow]

\* A unit of work: the committed table, the id counter, and how the work
\* ended.  error is "" while nothing was raised, the name of the step after a failed
\* repository call and "TypeError" after a failed float().
Session(rows, id, faults) ==
  [store |-> rows, nextId |-> id, faults |-> faults, error |-> "",
   created |-> {}, deleted |-> {}, passed |-> {},
   rolled_back |-> FALSE, closed |-> FALSE]

\* a repository call either succeeds or, when the database can fail in this
\* run, raises
Outcomes(ok, failed, faults) == IF faults THEN {ok, failed} ELSE {ok}

\* a create that replaces the rows already stored for its type and day
create_replaces_same_day(ss, type, name, value, date_time, is_leading_indicator, region, utcnow) ==
  Outcomes(
    [ss EXCEPT !.store = (@ \ matching(ss.store, type, date_time))
                         \cup {new_indicator(ss.nextId, type, name, value, date_time,
                                              is_leading_indicator, region, utcnow)},
               !.nextId = @ + 1,
               !.created = @ \cup {ss.nextId},
               !.passed = @ \cup {value}],
    [ss EXCEPT !.error = "create", !.passed = @ \cup {value}],
    ss.faults \/ ~notna(value))

\* create(): add + commit + refresh, or the commit raises and nothing is
\* inserted.  passed collects the values create() was called with.  A NaN
\* value is refused by the MySQL driver the application is configured
\* with and kept by other backends, so both outcomes are possible.
create(ss, type, name, value, date_time, is_leading_indicator, region, utcnow) ==
  Outcomes(
    [ss EXCEPT !.store = @ \cup {new_indicator(ss.nextId, type, name, value, date_time,
                                               is_leading_indicator, region, utcnow)},
               !.nextId = @ + 1,
               !.created = @ \cup {ss.nextId},
               !.passed = @ \cup {value}],
    [ss EXCEPT !.error = "create", !.passed = @ \cup {value}],
    ss.faults \/ ~notna(value))

\* a delete that reports success and leaves the row in the table
delete_keeps_the_row(ss, indicator) ==
  {[ss EXCEPT !.deleted = @ \cup {indicator}]}

\* a delete whose failure is raised without rollback: the pending removal
\* stays
delete_without_rollback(ss, indicator) ==
  Outcomes(
    [ss EXCEPT !.store = @ \ {indicator}, !.deleted = @ \cup {indicator}],
    [ss EXCEPT !.store = @ \ {indicator}, !.error = "delete"], ss.faults)

\* delete(): the row is removed and committed, or the session is rolled
\* back, the row stays and the exception is re-raised
delete(ss, indicator) ==
  Outcomes(
    [ss EXCEPT !.store = @ \ {indicator}, !.deleted = @ \cup {indicator}],
    [ss EXCEPT !.error = "delete", !.rolled_back = TRUE], ss.faults)

\* --------------------------------------------------------- MacroDataService
\* a loop body that deletes every row of the (type, day) before it creates
upsert_deletes_all_matching(ss, type, name, value, date_time, is_leading_indicator, utcnow) ==
  IF value.raised THEN {[ss EXCEPT !.error = "TypeError"]}
  ELSE create([ss EXCEPT !.store = @ \ matching(ss.store, type, date_time),
                         !.deleted = @ \cup matching(ss.store, type, date_time)],
              type, name, The(value.val), date_time, is_leading_indicator, "US", utcnow)

\* a loop body that overwrites the row found (repository update) instead
\* of deleting it and creating a new one
upsert_updates_in_place(ss, type, name, value, date_time, is_leading_indicator, utcnow) ==
  UNION { IF IsNone(existing_record)
          THEN IF value.raised THEN {[ss EXCEPT !.error = "TypeError"]}
               ELSE create(ss, type, name, The(value.val), date_time,
                           is_leading_indicator, "US", utcnow)
          ELSE IF value.raised THEN {[ss EXCEPT !.error = "TypeError"]}
               ELSE {[ss EXCEPT !.store =
                        (@ \ {The(existing_record)})
                        \cup {[The(existing_record) EXCEPT
                                 !.value = The(value.val),
                                 !.date_time = date_time]}]} :
          existing_record \in find_by_type_and_date(ss.store, type, date_time) }

\* One pass of the loop body shared by every save routine: look the row of
\* (type, day of date_time) up, delete it when found, then create the new
\* row.  value is the outcome of float(value), evaluated as an argument of
\* create, i.e. after the delete.
upsert(ss, type, name, value, date_time, is_leading_indicator, utcnow) ==
  LET afterFind ==
        (IF ss.faults THEN {[ss EXCEPT !.error = "find"]} ELSE {})
        \cup UNION { IF IsNone(existing_record) THEN {ss}
                     ELSE delete(ss, The(existing_record)) :
                     existing_record \in find_by_type_and_date(ss.store, type, date_time) }
      afterFloat ==
        { IF s.error # "" THEN s
          ELSE IF value.raised THEN [s EXCEPT !.error = "TypeError"]
          ELSE s : s \in afterFind }
  IN  UNION { IF s.error # "" THEN {s}
              ELSE create(s, type, name, The(value.val), date_time,
                          is_leading_indicator, "US", utcnow) : s \in afterFloat }

\* items: the (type, name, value, date_time, is_leading_indicator) tuples a
\* save routine walks through, in order; the first failure ends the loop
RECURSIVE upsert_all(_, _, _)
upsert_all(S, items, utcnow) ==
  IF items = <<>> THEN S
  ELSE LET it == Head(items)
       IN  upsert_all(UNION { IF ss.error # "" THEN {ss}
                              ELSE upsert(ss, it[1], it[2], it[3], it[4], it[5], utcnow) :
                              ss \in S },
                      Tail(items), utcnow)

\* a close() that leaves the session open
close_leaves_open(ss) == ss

\* close(): the repository closes its session
close(ss) == [ss EXCEPT !.closed = TRUE]

finish_without_rollback(ss) ==
  close(ss)

\* a rollback that takes the rows out again which the routine had created
finish_undoes_creates(ss) ==
  close([ss EXCEPT !.rolled_back = @ \/ ss.error # "",
                   !.store = IF ss.error # ""
                             THEN {r \in @ : r.id \notin ss.created} ELSE @])

\* a rollback that brings the rows back which the routine had deleted
finish_restores_deleted(ss) ==
  close([ss EXCEPT !.rolled_back = @ \/ ss.error # "",
                   !.store = IF ss.error # "" THEN @ \cup ss.deleted ELSE @])

\* the except/finally of every save routine: rollback when anything was
\* raised, close in every case
finish(ss) ==
  close([ss EXCEPT !.rolled_back = @ \/ ss.error # ""])

\* the methods class MacroIndicatorRepository defines
RepositoryMethods ==
  {"create", "get_by_id", "get_all", "get_by_type", "get_by_name",
   "find_by_type_and_date", "update", "delete", "close"}

\* get_all_us_indicators / get_all_china_indicators: the try block looks
\* up self.repo.find_by_region_date_range, which raises AttributeError
\* when the repository has no such method; except logs and re-raises,
\* finally closes the session
get_all_indicators(ss, start_date, end_date, region) ==
  close([ss EXCEPT !.error =
           IF "find_by_region_date_range" \in RepositoryMethods
           THEN "" ELSE "AttributeError"])

\* Series.items(): the (index, value) pairs in index order
RECURSIVE series_items(_)
series_items(s) ==
  IF DOMAIN s = {} THEN <<>>
  ELSE LET d == CHOOSE x \in DOMAIN s : \A y \in DOMAIN s : x <= y
       IN  <<<<d, s[d]>>>> \o series_items([x \in DOMAIN s \ {d} |-> s[x]])

\* the items of one series of _save_leading_indicators_to_db: one per
\* observation that is not NaN, dated at the observation
leading_items(data, key, type, name) ==
  IF key \in DOMAIN data /\ ~IsNone(data[key])
  THEN LET obs == SelectSeq(series_items(The(data[key])), LAMBDA p : notna(p[2]))
       IN  [i \in 1..Len(obs) |-> <<type, name, Return(obs[i][2]), obs[i][1], TRUE>>]
  ELSE <<>>

leading_indicators ==
  << <<"leading_index_us", "USALOLITOAASTSAM", "US_LEADING_INDEX">>,
     <<"leading_index_de", "BBKMLEIX", "BBK_LEADING_INDEX">> >>

save_leading_indicators_to_db(ss, data, utcnow) ==
  { finish(f) :
    f \in upsert_all({ss},
                     leading_items(data, leading_indicators[1][1], leading_indicators[1][2],
                                   leading_indicators[1][3])
                     \o leading_items(data, leading_indicators[2][1], leading_indicators[2][2],
                                      leading_indicators[2][3]),
                     utcnow) }

treasury_indicators ==
  << <<"dgs3mo", "DGS3MO", "TREASURY_3M_YIELD">>,
     <<"dgs2", "DGS2", "TREASURY_2Y_YIELD">>,
     <<"dgs10", "DGS10", "TREASURY_10Y_YIELD">>,
     <<"spread_10y_2y", "SPREAD_10Y_2Y", "TREASURY_SPREAD_10Y_2Y">>,
     <<"spread_10y_3m", "SPREAD_10Y_3M", "TREASURY_SPREAD_10Y_3M">> >>
consumer_indicators ==
  << <<"consumer_credit", "TOTALSL", "CONSUMER_CREDIT">>,
     <<"consumer_sentiment", "UMCSENT", "CONSUMER_SENTIMENT">>,
     <<"disposable_income", "DSPIC96", "DISPOSABLE_INCOME">> >>
financial_indicators ==
  << <<"national_financial_conditions", "NFCI", "NATIONAL_FINANCIAL_CONDITIONS">>,
     <<"adjusted_financial_conditions", "ANFCI", "ADJUSTED_FINANCIAL_CONDITIONS">> >>
commodity_indicators ==
  << <<"crude_oil", "CRUDE_OIL_FUT", "CRUDE_OIL_FUTURES">>,
     <<"gold", "GOLD_FUT", "GOLD_FUTURES">> >>

\* float(x) of a Python float
float_of_float(x) == Return(x)

\* the loop of the scalar save routines: every key whose value is not None
\* is written as one row dated current_date = datetime.now(); float(value)
\* is applied to what the client handed over, a Series (the FRED client) or
\* a float (the Yahoo client)
scalar_items(data, indicators, current_date, is_series) ==
  LET present == SelectSeq(indicators, LAMBDA ind : ~IsNone(get(data, ind[1])))
  IN  [i \in 1..Len(present) |->
         <<present[i][2], present[i][3],
           IF is_series THEN float_of_series(The(get(data, present[i][1])))
           ELSE float_of_float(The(get(data, present[i][1]))),
           current_date, FALSE>>]

save_treasury_data_to_db(ss, data, current_date) ==
  { finish(f) :
    f \in upsert_all({ss}, scalar_items(data, treasury_indicators, current_date, TRUE),
                     current_date) }

save_consumer_indices_to_db(ss, data, current_date) ==
  { finish(f) :
    f \in upsert_all({ss}, scalar_items(data, consumer_indicators, current_date, TRUE),
                     current_date) }

save_financial_condition_indices_to_db(ss, data, current_date) ==
  { finish(f) :
    f \in upsert_all({ss}, scalar_items(data, financial_indicators, current_date, TRUE),
                     current_date) }

save_commodity_prices_to_db(ss, data, current_date) ==
  { finish(f) :
    f \in upsert_all({ss}, scalar_items(data, commodity_indicators, current_date, FALSE),
                     current_date) }


\* ---------------------------------------------------------------- actions
Faults == FALSE

NoCall ==
  [op |-> "none", data |-> <<>>, result |-> "none", error |-> "",
   created |-> {}, deleted |-> {}, passed |-> {}, current_date |-> 0,
   rolled_back |-> FALSE, closed |-> FALSE]

\* no HTTP request is being handled
NoRequest ==
  [pc |-> 0, invoked |-> {}, returned |-> {}, error |-> "",
   status |-> "none", results |-> {}, created |-> {}]

\* the callers that may run an orchestration method at the same time
Workers == {"first", "second"}

\* a caller that is not inside an orchestration method
NoWork ==
  [pc |-> "idle", items |-> <<>>, existing_record |-> None,
   looked_up_at |-> 0, error |-> ""]

Init ==
  /\ store = {}
  /\ nextId = 1
  /\ now = 0
  /\ last = NoCall
  /\ resp = <<>>
  /\ lookup = <<>>
  /\ request = NoRequest
  /\ calls = [w \in Workers |-> NoWork]

\* the wall clock moves between calls
Tick ==
  /\ last.op = "none"
  /\ now < MaxTime
  /\ now' = now + 1
  /\ UNCHANGED <<store, nextId, last, resp, lookup, request, calls>>

\* fetch_and_store_<family>_by_date_range: the client was called and handed
\* c back; its result goes to the save routine, whose possible ends are
\* saved; the call returns True, or logs and re-raises the exception
fetch_and_store_upto(op, c, saved, max_id) ==
  IF c.raised
  THEN /\ last' = [NoCall EXCEPT !.op = op, !.result = "raised",
                                 !.error = "client", !.current_date = now]
       /\ UNCHANGED <<store, nextId>>
  ELSE \E f \in saved :
         /\ f.nextId <= max_id + 1
         /\ store' = f.store
         /\ nextId' = f.nextId
         /\ last' = [op |-> op, data |-> The(c.val),
                     result |-> IF f.error = "" THEN "True" ELSE "raised",
                     error |-> f.error, created |-> f.created,
                     deleted |-> f.deleted, passed |-> f.passed,
                     current_date |-> now,
                     rolled_back |-> f.rolled_back, closed |-> f.closed]

fetch_and_store(op, c, saved) == fetch_and_store_upto(op, c, saved, MaxId)

leading_indicators_call(faults) ==
  /\ last.op = "none"
  /\ nextId <= MaxId
  /\ \E raw \in [SeriesIds(leading_series_map) -> RawFredClean] :
       \E c \in {get_leading_indicators(raw)} :
         fetch_and_store("leading_indicators", c,
                         IF c.raised THEN {}
                         ELSE save_leading_indicators_to_db(
                                Session(store, nextId, faults), The(c.val), now))
  /\ UNCHANGED <<now, resp, lookup, calls>>

fetch_and_store_leading_indicators_by_date_range ==
  leading_indicators_call(Faults) /\ UNCHANGED request

treasury_data_call_upto(faults, max_id) ==
  /\ last.op = "none"
  /\ nextId <= max_id
  /\ \E raw \in [SeriesIds(treasury_series_ids) -> RawFredClean] :
       \E c \in {get_treasury_yields_and_spreads(raw)} :
         fetch_and_store_upto("treasury_data", c,
                         IF c.raised THEN {}
                         ELSE save_treasury_data_to_db(
                                Session(store, nextId, faults), The(c.val), now),
                max_id)
  /\ UNCHANGED <<now, resp, lookup, calls>>

treasury_data_call(faults) == treasury_data_call_upto(faults, MaxId)

fetch_and_store_treasury_data_by_date_range ==
  treasury_data_call(Faults) /\ UNCHANGED request

consumer_indices_call(faults) ==
  /\ last.op = "none"
  /\ nextId <= MaxId
  /\ \E raw \in [SeriesIds(consumer_series_map) -> RawFredClean] :
       \E c \in {get_consumer_indices(raw)} :
         fetch_and_store("consumer_indices", c,
                         IF c.raised THEN {}
                         ELSE save_consumer_indices_to_db(
                                Session(store, nextId, faults), The(c.val), now))
  /\ UNCHANGED <<now, resp, lookup, calls>>

fetch_and_store_consumer_indices_by_date_range ==
  consumer_indices_call(Faults) /\ UNCHANGED request

financial_condition_indices_call(faults) ==
  /\ last.op = "none"
  /\ nextId <= MaxId
  /\ \E raw \in [SeriesIds(financial_series_map) -> RawFredClean] :
       \E c \in {get_financial_condition_indices(raw)} :
         fetch_and_store("financial_condition_indices", c,
                         IF c.raised THEN {}
                         ELSE save_financial_condition_indices_to_db(
                                Session(store, nextId, faults), The(c.val), now))
  /\ UNCHANGED <<now, resp, lookup, calls>>

fetch_and_store_financial_condition_indices_by_date_range ==
  financial_condition_indices_call(Faults) /\ UNCHANGED request

commodity_prices_call(faults) ==
  /\ last.op = "none"
  /\ nextId <= MaxId
  /\ \E raw \in [SeriesIds(SYMBOLS) -> RawYahoo] :
       \E c \in {get_commodity_prices(raw)} :
         fetch_and_store("commodity_prices", c,
                         IF c.raised THEN {}
                         ELSE save_commodity_prices_to_db(
                                Session(store, nextId, faults), The(c.val), now))
  /\ UNCHANGED <<now, resp, lookup, calls>>

fetch_and_store_commodity_prices_by_date_range ==
  commodity_prices_call(Faults) /\ UNCHANGED request

\* the caller has taken the result (True or the exception) of the call
\* a read accessor is called with a window [start_date, end_date].  found
\* is the list find_by_region_date_range handed back and mapping the dict
\* the accessor returned: both None, since the attribute lookup raises
\* before either exists.
read_accessor(op, region) ==
  /\ last.op = "none"
  /\ \E start_date \in Times, end_date \in Times :
       \E f \in {get_all_indicators(Session(store, nextId, Faults),
                                    start_date, end_date, region)} :
         last' = [NoCall EXCEPT
                    !.op = op,
                    !.data = [start_date |-> start_date, end_date |-> end_date,
                              region |-> region, found |-> None,
                              mapping |-> None],
                    !.result = IF f.error = "" THEN "returned" ELSE "raised",
                    !.error = f.error,
                    !.current_date = now,
                    !.rolled_back = f.rolled_back,
                    !.closed = f.closed]
  /\ UNCHANGED <<store, nextId, now, resp, lookup, request, calls>>

get_all_us_indicators == read_accessor("get_all_us_indicators", "US")

get_all_china_indicators == read_accessor("get_all_china_indicators", "CHINA")

call_returns ==
  /\ last.op # "none"
  /\ last' = NoCall
  /\ UNCHANGED <<store, nextId, now, resp, lookup, request, calls>>

Next ==
  \/ Tick
  \/ call_returns
  \/ fetch_and_store_leading_indicators_by_date_range
  \/ fetch_and_store_treasury_data_by_date_range
  \/ fetch_and_store_consumer_indices_by_date_range
  \/ fetch_and_store_financial_condition_indices_by_date_range
  \/ fetch_and_store_commodity_prices_by_date_range

Spec == Init /\ [][Next]_vars

\* ---- the HTTP handler that refreshes every family ----

\* the methods class MacroDataService defines
ServiceMethods ==
  {"__init__", "get_all_us_indicators", "get_all_china_indicators",
   "fetch_and_store_leading_indicators", "_save_leading_indicators_to_db",
   "fetch_and_store_treasury_data", "_save_treasury_data_to_db",
   "fetch_and_store_consumer_indices", "_save_consumer_indices_to_db",
   "fetch_and_store_financial_condition_indices",
   "_save_financial_condition_indices_to_db",
   "fetch_and_store_pmi_indicators", "_save_pmi_indicators_to_db",
   "fetch_and_store_commodity_prices", "_save_commodity_prices_to_db",
   "fetch_and_store_leading_indicators_by_date_range",
   "fetch_and_store_treasury_data_by_date_range",
   "fetch_and_store_consumer_indices_by_date_range",
   "fetch_and_store_financial_condition_indices_by_date_range",
   "fetch_and_store_commodity_prices_by_date_range",
   "fetch_and_store_leading_index", "fetch_and_store_bbk_index",
   "fetch_and_store_treasury_yield_3m", "fetch_and_store_treasury_yield_2y",
   "fetch_and_store_treasury_yield_10y", "fetch_and_store_consumer_credit",
   "fetch_and_store_consumer_sentiment", "fetch_and_store_disposable_income",
   "fetch_and_store_crude_oil", "fetch_and_store_gold"}

\* a results dict that refreshes the treasury family first
handler_calls_treasury_first ==
  <<"treasury_data", "leading_indicators", "consumer_indices",
    "financial_condition_indices", "pmi_indicators", "commodity_prices">>

\* the orchestration calls of fetch_and_store_all_macro_indices, in the
\* order the results dict evaluates them
handler_calls ==
  <<"leading_indicators", "consumer_indices", "financial_condition_indices",
    "treasury_data", "pmi_indicators", "commodity_prices">>

\* the service method called for a key of the results dict
service_method(family) ==
  CASE family = "leading_indicators" ->
         "fetch_and_store_leading_indicators_by_date_range"
    [] family = "consumer_indices" ->
         "fetch_and_store_consumer_indices_by_date_range"
    [] family = "financial_condition_indices" ->
         "fetch_and_store_financial_condition_indices_by_date_range"
    [] family = "treasury_data" ->
         "fetch_and_store_treasury_data_by_date_range"
    [] family = "pmi_indicators" ->
         "fetch_and_store_pmi_indicators_by_date_range"
    [] family = "commodity_prices" ->
         "fetch_and_store_commodity_prices_by_date_range"

\* position of a request whose handler has ended
Responded == Len(handler_calls) + 1

\* POST /fetch-store-all-macro-indices: the handler starts
post_fetch_store_all_macro_indices ==
  /\ request.pc = 0
  /\ last.op = "none"
  /\ nextId <= MaxId
  /\ request' = [NoRequest EXCEPT !.pc = 1]
  /\ UNCHANGED <<store, nextId, now, last, resp, lookup, calls>>

\* the handler evaluates the next entry of the results dict: the service
\* method is looked up (AttributeError when the class has none of that
\* name) and called; an exception ends the handler with HTTPException 500,
\* the last entry's return builds the "success" response
handler_calls_service ==
  /\ request.pc \in 1..Len(handler_calls)
  /\ last.op = "none"
  /\ LET family == handler_calls[request.pc] IN
       IF service_method(family) \notin ServiceMethods
       THEN /\ request' = [request EXCEPT !.pc = Responded,
                                          !.error = "AttributeError",
                                          !.status = "500"]
            /\ UNCHANGED <<store, nextId, now, last, resp, lookup, calls>>
       ELSE /\ CASE family = "leading_indicators" ->
                     leading_indicators_call(Faults)
                 [] family = "consumer_indices" ->
                     consumer_indices_call(Faults)
                 [] family = "financial_condition_indices" ->
                     financial_condition_indices_call(Faults)
                 [] family = "treasury_data" ->
                     treasury_data_call(Faults)
                 [] family = "commodity_prices" ->
                     commodity_prices_call(Faults)
            /\ request' =
                 IF last'.result # "True"
                 THEN [request EXCEPT !.pc = Responded,
                                      !.invoked = @ \cup {family},
                                      !.error = last'.error,
                                      !.status = "500",
                                      !.created = @ \cup last'.created]
                 ELSE IF request.pc = Len(handler_calls)
                 THEN [request EXCEPT !.pc = Responded,
                                      !.invoked = @ \cup {family},
                                      !.returned = @ \cup {family},
                                      !.status = "success",
                                      !.results = request.returned \cup {family},
                                      !.created = @ \cup last'.created]
                 ELSE [request EXCEPT !.pc = @ + 1,
                                      !.invoked = @ \cup {family},
                                      !.returned = @ \cup {family},
                                      !.created = @ \cup last'.created]

\* the response has been sent
handler_returns ==
  /\ request.pc = Responded
  /\ request' = NoRequest
  /\ UNCHANGED <<store, nextId, now, last, resp, lookup, calls>>

NextApi ==
  \/ Tick
  \/ call_returns
  \/ post_fetch_store_all_macro_indices
  \/ handler_calls_service
  \/ handler_returns
  \/ get_all_us_indicators
  \/ get_all_china_indicators

SpecApi == Init /\ [][NextApi]_vars

\* ---- the per-indicator methods fetch_and_store_<indicator>(start, end) ----

\* the methods class FredMacroDataClient defines
FredClientMethods ==
  {"_fetch_fred_series", "_get_fred_series_value", "get_leading_indicators",
   "get_treasury_yields_and_spreads", "get_consumer_indices",
   "get_financial_condition_indices"}

\* YahooFinanceClient.get_crude_oil_price of the application's client
\* package: the latest price of CL=F in the window, or None
get_crude_oil_price(raw) == get_latest_price(raw)

\* the body shared by the scalar per-indicator methods: when data is not
\* None the row of (type, day of end_date) is looked up and deleted, and a
\* row dated end_date is created; except logs and re-raises (no rollback),
\* finally closes
store_scalar_indicator(ss, data, type, name, end_date, utcnow) ==
  IF IsNone(data) THEN {close(ss)}
  ELSE {close(f) : f \in upsert(ss, type, name, float_of_float(The(data)),
                                end_date, FALSE, utcnow)}

fetch_and_store_crude_oil ==
  /\ last.op = "none"
  /\ nextId <= MaxId
  /\ \E end_date \in Times, raw \in RawYahoo :
       \E c \in {get_crude_oil_price(raw)} :
         \E f \in store_scalar_indicator(Session(store, nextId, Faults), The(c.val),
                                         "CRUDE_OIL_FUT", "CRUDE_OIL_FUTURES",
                                         end_date, now) :
           /\ store' = f.store
           /\ nextId' = f.nextId
           /\ last' = [op |-> "crude_oil", data |-> [end_date |-> end_date],
                       result |-> IF f.error = "" THEN "True" ELSE "raised",
                       error |-> f.error, created |-> f.created,
                       deleted |-> f.deleted, passed |-> f.passed,
                       current_date |-> now,
                       rolled_back |-> f.rolled_back, closed |-> f.closed]
  /\ UNCHANGED <<now, resp, lookup, request, calls>>

\* fetch_and_store_treasury_yield_3m: self.fred_client.get_treasury_yield_3m
\* is looked up first, which raises AttributeError when the client has no
\* such method; except logs and re-raises, finally closes
fetch_and_store_treasury_yield_3m ==
  /\ last.op = "none"
  /\ \E end_date \in Times :
       \E f \in {close([Session(store, nextId, Faults) EXCEPT !.error =
                          IF "get_treasury_yield_3m" \in FredClientMethods
                          THEN "" ELSE "AttributeError"])} :
         last' = [NoCall EXCEPT
                    !.op = "treasury_yield_3m",
                    !.data = [end_date |-> end_date],
                    !.result = IF f.error = "" THEN "True" ELSE "raised",
                    !.error = f.error,
                    !.current_date = now,
                    !.closed = f.closed]
  /\ UNCHANGED <<store, nextId, now, resp, lookup, request, calls>>

NextIndicator ==
  \/ Tick
  \/ call_returns
  \/ fetch_and_store_crude_oil
  \/ fetch_and_store_treasury_yield_3m
  \/ fetch_and_store_commodity_prices_by_date_range

SpecIndicator == Init /\ [][NextIndicator]_vars

\* ---- the same calls against a database whose calls may raise ----
\* Any find_by_type_and_date, delete or create of the call may raise
\* (connection lost, constraint violated, ...).

DbMayFail == TRUE

fetch_and_store_leading_indicators_db_failing ==
  leading_indicators_call(DbMayFail) /\ UNCHANGED request

fetch_and_store_treasury_data_db_failing ==
  treasury_data_call(DbMayFail) /\ UNCHANGED request

fetch_and_store_consumer_indices_db_failing ==
  consumer_indices_call(DbMayFail) /\ UNCHANGED request

fetch_and_store_financial_condition_indices_db_failing ==
  financial_condition_indices_call(DbMayFail) /\ UNCHANGED request

fetch_and_store_commodity_prices_db_failing ==
  commodity_prices_call(DbMayFail) /\ UNCHANGED request

NextFail ==
  \/ Tick
  \/ call_returns
  \/ get_all_us_indicators
  \/ get_all_china_indicators
  \/ fetch_and_store_leading_indicators_db_failing
  \/ fetch_and_store_treasury_data_db_failing
  \/ fetch_and_store_consumer_indices_db_failing
  \/ fetch_and_store_financial_condition_indices_db_failing
  \/ fetch_and_store_commodity_prices_db_failing

SpecFail == Init /\ [][NextFail]_vars

\* ------------------------------------------------ provider client calls
\* A caller invokes one public fetch method of a provider client; resp holds
\* the method, what the provider did and what the method handed back.
client_call(method, group, raw, out) ==
  /\ resp' = <<[method |-> method, group |-> group, raw |-> raw, out |-> out]>>
  /\ UNCHANGED <<store, nextId, now, last, lookup, request, calls>>

fred_get_leading_indicators ==
  /\ resp = <<>>
  /\ \E raw \in [SeriesIds(leading_series_map) -> RawFred] :
       client_call("get_leading_indicators", leading_series_map, raw,
                   get_leading_indicators(raw))

fred_get_treasury_yields_and_spreads ==
  /\ resp = <<>>
  /\ \E raw \in [SeriesIds(treasury_series_ids) -> RawFred] :
       client_call("get_treasury_yields_and_spreads", treasury_series_ids, raw,
                   get_treasury_yields_and_spreads(raw))

fred_get_consumer_indices ==
  /\ resp = <<>>
  /\ \E raw \in [SeriesIds(consumer_series_map) -> RawFred] :
       client_call("get_consumer_indices", consumer_series_map, raw,
                   get_consumer_indices(raw))

fred_get_financial_condition_indices ==
  /\ resp = <<>>
  /\ \E raw \in [SeriesIds(financial_series_map) -> RawFred] :
       client_call("get_financial_condition_indices", financial_series_map, raw,
                   get_financial_condition_indices(raw))

yahoo_get_commodity_prices ==
  /\ resp = <<>>
  /\ \E raw \in [SeriesIds(SYMBOLS) -> RawYahoo] :
       client_call("get_commodity_prices", SYMBOLS, raw, get_commodity_prices(raw))

te_get_pmi_indicators ==
  /\ resp = <<>>
  /\ \E raw \in [SeriesIds(indicators_map) -> RawTE] :
       client_call("get_pmi_indicators", indicators_map, raw, get_pmi_indicators(raw))

akshare_get_trade_balance ==
  /\ resp = <<>>
  /\ \E raw \in RawAkshare : \E start_date, end_date \in Times :
       /\ start_date <= end_date
       /\ client_call("get_trade_balance", trade_none, raw,
                      get_trade_balance(raw, start_date, end_date))

\* the caller has taken the result
client_returns ==
  /\ resp # <<>>
  /\ resp' = <<>>
  /\ UNCHANGED <<store, nextId, now, last, lookup, request, calls>>

NextClient ==
  \/ fred_get_leading_indicators
  \/ fred_get_treasury_yields_and_spreads
  \/ fred_get_consumer_indices
  \/ fred_get_financial_condition_indices
  \/ yahoo_get_commodity_prices
  \/ te_get_pmi_indicators
  \/ akshare_get_trade_balance
  \/ client_returns

SpecClient == Init /\ [][NextClient]_vars

\* ------------------------------------------------------ repository calls
\* A caller uses the repository directly: create and delete change the
\* table, find_by_type_and_date is recorded in lookup with what it returned.
RepoTypes == {"DGS10", "DGS2"}

repo_create ==
  /\ lookup = <<>>
  /\ nextId <= MaxId
  /\ \E type \in RepoTypes, value \in Values, date_time \in Times :
       \E f \in create(Session(store, nextId, Faults), type, type, value, date_time,
                       FALSE, "US", now) :
         /\ store' = f.store
         /\ nextId' = f.nextId
  /\ UNCHANGED <<now, last, resp, lookup, request, calls>>

repo_delete ==
  /\ lookup = <<>>
  /\ \E indicator \in store :
       \E f \in delete(Session(store, nextId, Faults), indicator) :
         store' = f.store
  /\ UNCHANGED <<nextId, now, last, resp, lookup, request, calls>>

repo_find_by_type_and_date ==
  /\ lookup = <<>>
  /\ \E type \in RepoTypes, date_time \in Times :
       \E found \in find_by_type_and_date(store, type, date_time) :
         lookup' = <<[indicator_type |-> type, date_time |-> date_time, result |-> found]>>
  /\ UNCHANGED <<store, nextId, now, last, resp, request, calls>>

repo_returns ==
  /\ lookup # <<>>
  /\ lookup' = <<>>
  /\ UNCHANGED <<store, nextId, now, last, resp, request, calls>>

\* the wall clock moves between repository calls
repo_tick ==
  /\ lookup = <<>>
  /\ now < MaxTime
  /\ now' = now + 1
  /\ UNCHANGED <<store, nextId, last, resp, lookup, request, calls>>

NextRepo ==
  \/ repo_tick
  \/ repo_create
  \/ repo_delete
  \/ repo_find_by_type_and_date
  \/ repo_returns

SpecRepo == Init /\ [][NextRepo]_vars

\* ---- two callers inside fetch_and_store_commodity_prices_by_date_range ----
\* Each caller has its own service, repository and session; every
\* repository call commits, so the callers interleave between the find,
\* delete and create of the save loop (the loop every scalar save routine
\* shares).

\* the loop goes to its next key, or ends when none is left
next_item(wk) ==
  [wk EXCEPT !.pc = IF wk.items = <<>> THEN "done" ELSE "find",
             !.existing_record = None]

\* the call starts: the client is asked, the save routine reads
\* current_date and walks the keys whose value is not None
worker_calls(w) ==
  /\ calls[w].pc = "idle"
  /\ nextId <= MaxId
  /\ \E raw \in [SeriesIds(SYMBOLS) -> RawYahoo] :
       \E c \in {get_commodity_prices(raw)} :
         calls' = [calls EXCEPT ![w] =
                     IF c.raised
                     THEN [NoWork EXCEPT !.pc = "done", !.error = "client"]
                     ELSE next_item([NoWork EXCEPT
                            !.items = scalar_items(The(c.val), commodity_indicators,
                                                   now, FALSE)])]
  /\ UNCHANGED <<store, nextId, now, last, resp, lookup, request>>

\* existing_record = self.repo.find_by_type_and_date(indicator_type,
\* current_date); looked_up_at remembers the id counter at that moment, so
\* that rows created after the lookup can be told from older ones
worker_finds(w) ==
  /\ calls[w].pc = "find"
  /\ LET it == Head(calls[w].items) IN
       \E found \in find_by_type_and_date(store, it[1], it[4]) :
         calls' = [calls EXCEPT ![w].existing_record = found,
                                ![w].looked_up_at = nextId,
                                ![w].pc = IF IsNone(found) THEN "create"
                                          ELSE "delete"]
  /\ UNCHANGED <<store, nextId, now, last, resp, lookup, request>>

\* self.repo.delete(existing_record)
worker_deletes(w) ==
  /\ calls[w].pc = "delete"
  /\ \E f \in delete(Session(store, nextId, Faults),
                      The(calls[w].existing_record)) :
       /\ store' = f.store
       /\ calls' = [calls EXCEPT ![w].pc = "create"]
  /\ UNCHANGED <<nextId, now, last, resp, lookup, request>>

\* self.repo.create(..., value=float(value), ...): float() may raise, the
\* create may be refused; either ends the call, otherwise the loop goes on
worker_creates(w) ==
  /\ calls[w].pc = "create"
  /\ nextId <= MaxId
  /\ LET it == Head(calls[w].items) IN
       IF it[3].raised
       THEN /\ calls' = [calls EXCEPT ![w].pc = "done", ![w].error = "TypeError"]
            /\ UNCHANGED <<store, nextId>>
       ELSE \E f \in create(Session(store, nextId, Faults), it[1], it[2],
                            The(it[3].val), it[4], it[5], "US", now) :
              /\ store' = f.store
              /\ nextId' = f.nextId
              /\ calls' = [calls EXCEPT ![w] =
                             IF f.error # ""
                             THEN [@ EXCEPT !.pc = "done", !.error = f.error]
                             ELSE next_item([@ EXCEPT !.items = Tail(@)])]
  /\ UNCHANGED <<now, last, resp, lookup, request>>

\* the call returns True or raises
worker_returns(w) ==
  /\ calls[w].pc = "done"
  /\ calls' = [calls EXCEPT ![w] = NoWork]
  /\ UNCHANGED <<store, nextId, now, last, resp, lookup, request>>

NextRace ==
  \/ \E w \in Workers : worker_calls(w)
  \/ \E w \in Workers : worker_finds(w)
  \/ \E w \in Workers : worker_deletes(w)
  \/ \E w \in Workers : worker_creates(w)
  \/ \E w \in Workers : worker_returns(w)

SpecRace == Init /\ [][NextRace]_vars

\* ---- a treasury refresh over rows that repository creates put there ----
\* create() is also reachable without the lookup of the save routines, so
\* the table may hold several rows of one type and day when a refresh runs.

\* ids for the rows created directly and one more for the refresh
MaxDupId == MaxId + 1

fetch_and_store_treasury_data_again ==
  treasury_data_call_upto(Faults, MaxDupId) /\ UNCHANGED request

NextDup ==
  \/ repo_create
  \/ fetch_and_store_treasury_data_again
  \/ call_returns

SpecDup == Init /\ [][NextDup]_vars

\* ---- one pass of the loop body over any table ----
\* The loop body of the save routines (find, delete when found, create),
\* applied once to a type, a value and a date_time, on a table that earlier
\* passes and repository creates have filled; the database may fail.
upsert_once ==
  /\ last.op = "none"
  /\ nextId <= MaxDupId
  /\ \E type \in RepoTypes, value \in Values, date_time \in Times, faults \in BOOLEAN :
       \E f \in upsert(Session(store, nextId, faults), type, type, Return(value),
                       date_time, FALSE, now) :
         /\ store' = f.store
         /\ nextId' = f.nextId
         /\ last' = [NoCall EXCEPT
                       !.op = "upsert",
                       !.data = [type |-> type, value |-> value,
                                 date_time |-> date_time],
                       !.result = IF f.error = "" THEN "True" ELSE "raised",
                       !.error = f.error,
                       !.created = f.created,
                       !.deleted = f.deleted,
                       !.passed = f.passed,
                       !.current_date = now]
  /\ UNCHANGED <<now, resp, lookup, request, calls>>

NextUpsert ==
  \/ repo_create
  \/ upsert_once
  \/ call_returns

SpecUpsert == Init /\ [][NextUpsert]_vars

\* ---- the repository over a database whose commit may raise ----

\* delete(indicator) of a stored row; last records the call and how it
\* ended
repo_delete_db_failing ==
  /\ lookup = <<>>
  /\ last.op = "none"
  /\ \E indicator \in store :
       \E f \in delete(Session(store, nextId, DbMayFail), indicator) :
         /\ store' = f.store
         /\ last' = [NoCall EXCEPT
                       !.op = "delete",
                       !.data = indicator,
                       !.result = IF f.error = "" THEN "True" ELSE "raised",
                       !.error = f.error,
                       !.deleted = f.deleted,
                       !.rolled_back = f.rolled_back]
  /\ UNCHANGED <<nextId, now, resp, lookup, request, calls>>

NextRepoFail ==
  \/ repo_tick
  \/ repo_create
  \/ repo_delete_db_failing
  \/ call_returns

SpecRepoFail == Init /\ [][NextRepoFail]_vars

\* ================================================================ claims
Day(date_time) == date_time \div TicksPerDay

\* the rows of rows stored for the (type, calendar day) pair of row r
RowsOfPair(rows, r) ==
  {q \in rows : q.type = r.type /\ Day(q.date_time) = Day(r.date_time)}

\* a step in which a fetch_and_store call ran to its end and returned True
Succeeds == last.op = "none" /\ last'.result = "True"

\* C1: starting from the empty store, after any sequence of save routines
\* run one after another, no two stored rows have the same type and the
\* same calendar day of date_time.
C1_AtMostOneRowPerTypeAndDay ==
  \A r1, r2 \in store :
    (r1.type = r2.type /\ Day(r1.date_time) = Day(r2.date_time)) => r1 = r2

\* C1's case: a routine wrote a (type, day) that an earlier routine had
\* written at an earlier time of the same day
C1_Witness_RewrittenLaterSameDay ==
  \E d \in last.deleted : \E r \in store :
    /\ r.type = d.type
    /\ Day(r.date_time) = Day(d.date_time)
    /\ r.date_time > d.date_time

C3_RerunReplacesTheRow ==
  [][ Succeeds =>
        \A old \in store : \A r \in store' :
          (/\ r.id \in last'.created
           /\ r.type = old.type
           /\ Day(r.date_time) = Day(old.date_time)
           /\ r.value = old.value)
          => /\ old.id \notin Ids(store')
             /\ r.id \notin Ids(store)
             /\ r.creation_data_time = now
             /\ r.creation_data_time >= old.creation_data_time
             /\ RowsOfPair(store', r) = {r} ]_vars

\* C3's case: the consumer family was fetched again later on the same day
\* and a row was replaced by a row of the same value
C3_Witness_ConsumerRerun ==
  /\ last.op = "consumer_indices"
  /\ last.result = "True"
  /\ \E d \in last.deleted : \E r \in store :
       /\ r.id \in last.created
       /\ r.type = d.type
       /\ Day(r.date_time) = Day(d.date_time)
       /\ r.value = d.value
       /\ r.creation_data_time > d.creation_data_time

\* C4: find_by_type_and_date(type, d) returns a row only if the row is
\* stored, has exactly that type and a date_time on the calendar day of d,
\* and it returns none exactly when the store has no such row.
C4_FindByTypeAndDay ==
  lookup # <<>> =>
    LET l == lookup[1]
        sameDay == {r \in store : /\ r.type = l.indicator_type
                                  /\ Day(r.date_time) = Day(l.date_time)}
    IN  IF IsNone(l.result) THEN sameDay = {} ELSE The(l.result) \in sameDay

\* C4's case: a row is found through another instant of its day while a
\* row of the same type on another day is in the store and is not returned
C4_Witness_FoundWithinTheDay ==
  /\ lookup # <<>>
  /\ ~IsNone(lookup[1].result)
  /\ The(lookup[1].result).date_time > lookup[1].date_time
  /\ \E r \in store : /\ r.type = lookup[1].indicator_type
                      /\ Day(r.date_time) # Day(lookup[1].date_time)

\* the (key, type, name) table the save routine of a family walks through
IndicatorsOf(op) ==
  CASE op = "leading_indicators" -> leading_indicators
    [] op = "treasury_data" -> treasury_indicators
    [] op = "consumer_indices" -> consumer_indicators
    [] op = "financial_condition_indices" -> financial_indicators
    [] op = "commodity_prices" -> commodity_indicators

\* C5: when the provider result of a family has a value for some
\* sub-indicators and none for others, the fetch_and_store call returns True,
\* stores a row for every sub-indicator that has a value and stores no row
\* for an absent one.
C5_PartialFamilyIsStored ==
  (/\ last.op # "none"
   /\ last.error # "client"
   /\ \E i \in 1..Len(IndicatorsOf(last.op)) :
        ~IsNone(get(last.data, IndicatorsOf(last.op)[i][1]))
   /\ \E i \in 1..Len(IndicatorsOf(last.op)) :
        IsNone(get(last.data, IndicatorsOf(last.op)[i][1])))
  => /\ last.result = "True"
     /\ \A i \in 1..Len(IndicatorsOf(last.op)) :
          ~IsNone(get(last.data, IndicatorsOf(last.op)[i][1]))
          <=> \E r \in store : /\ r.id \in last.created
                               /\ r.type = IndicatorsOf(last.op)[i][2]

\* C6: after a fetch_and_store call that returned True for a family whose
\* provider result holds series, the store has, for every observation of
\* every series of the result, a row of the series' type dated at the
\* observation and carrying its value.
C6_OneRowPerObservation ==
  (/\ last.result = "True"
   /\ last.op \in {"leading_indicators", "treasury_data", "consumer_indices",
                   "financial_condition_indices"})
  => \A i \in 1..Len(IndicatorsOf(last.op)) :
       LET value == get(last.data, IndicatorsOf(last.op)[i][1])
       IN  ~IsNone(value) =>
             \A d \in DOMAIN The(value) :
               \E r \in store : /\ r.type = IndicatorsOf(last.op)[i][2]
                                /\ r.date_time = d
                                /\ r.value = The(value)[d]

\* whether the provider failed the series of key k of the call c: a request
\* error, or a payload without the column the client reads
SeriesFailed(c, k) ==
  IF c.method = "get_trade_balance"
  THEN c.raw.err \/ c.raw.columns # TradeColumns
  ELSE \/ c.raw[c.group[k]].err
       \/ c.method = "get_commodity_prices" /\ "Close" \notin c.raw[c.group[k]].columns
       \/ c.method = "get_pmi_indicators" /\ "Value" \notin c.raw[c.group[k]].columns

\* C7: no public fetch method of a provider client raises, whatever the
\* provider did, and the value of every series that failed is absent
\* (None, or the key is missing) in what the method returns.
C7_NoPublicFetchRaises ==
  resp # <<>> =>
    /\ ~resp[1].out.raised
    /\ \A k \in DOMAIN resp[1].group :
         SeriesFailed(resp[1], k) => IsNone(get(The(resp[1].out.val), k))

\* C7's case: one series of a group failed at the provider, a sibling did
\* not, and the method returned the sibling's value
C7_Witness_PartialFailureReturned ==
  /\ resp # <<>>
  /\ resp[1].method = "get_treasury_yields_and_spreads"
  /\ resp[1].raw["DGS2"].err
  /\ ~resp[1].out.raised
  /\ ~IsNone(get(The(resp[1].out.val), "dgs10"))

\* C8: what a grouped fetch returns contains every sub-indicator key of its
\* group, and the value of a key whose series failed is None (the key is
\* there, not left out).
C8_EveryKeyOfTheGroupPresent ==
  resp # <<>> =>
    /\ ~resp[1].out.raised
    /\ \A k \in DOMAIN resp[1].group :
         /\ k \in DOMAIN The(resp[1].out.val)
         /\ SeriesFailed(resp[1], k) => IsNone(The(resp[1].out.val)[k])

\* C9: no series a provider client returns (a yield series, a spread
\* series, a column series of akshare) has a NaN at any position.
C9_NoNaNInReturnedSeries ==
  (/\ resp # <<>>
   /\ resp[1].method \in {"get_leading_indicators", "get_treasury_yields_and_spreads",
                          "get_consumer_indices", "get_financial_condition_indices",
                          "get_trade_balance"})
  => \A k \in DOMAIN The(resp[1].out.val) :
       ~IsNone(The(resp[1].out.val)[k]) =>
         \A d \in DOMAIN The(The(resp[1].out.val)[k]) :
           notna(The(The(resp[1].out.val)[k])[d])

\* C10: every stored row has a value that is a number, not NaN, and no save
\* routine has passed a NaN to create.
C10_NoNaNReachesCreate ==
  /\ \A v \in last.passed : notna(v)
  /\ \A r \in store : notna(r.value)

\* C11: a spread series returned by get_treasury_yields_and_spreads has an
\* entry exactly at the dates its two yield series share, each a value; a
\* date that only one of them has gets no entry, not even a null one.
C11_SpreadOnlyAtSharedDates ==
  (resp # <<>> /\ resp[1].method = "get_treasury_yields_and_spreads")
  => \A p \in {<<"spread_10y_2y", "dgs2">>, <<"spread_10y_3m", "dgs3mo">>} :
       LET result == The(resp[1].out.val)
       IN  ~IsNone(result[p[1]]) =>
             /\ DOMAIN The(result[p[1]])
                  = DOMAIN The(result.dgs10) \cap DOMAIN The(result[p[2]])
             /\ \A d \in DOMAIN The(result[p[1]]) : notna(The(result[p[1]])[d])

\* the rows of the store that the last call created with the given type
CreatedOfType(type) == {r \in store : r.id \in last.created /\ r.type = type}

\* C12: when the provider result of a treasury call has DGS10, DGS2 and
\* DGS3MO, the call returns True and has stored five distinct rows dated on
\* the day of the call: the three yields and the two spreads, each spread
\* being the difference of its yields.
C12_FiveTreasuryRows ==
  (/\ last.op = "treasury_data"
   /\ last.error # "client"
   /\ \A k \in {"dgs10", "dgs2", "dgs3mo"} : ~IsNone(get(last.data, k)))
  => /\ last.result = "True"
     /\ Cardinality(last.created) = Len(treasury_indicators)
     /\ \A i \in 1..Len(treasury_indicators) :
          \E r \in CreatedOfType(treasury_indicators[i][2]) :
            Day(r.date_time) = Day(last.current_date)
     /\ \A y10 \in CreatedOfType("DGS10") :
          /\ \A y2 \in CreatedOfType("DGS2") : \A sp \in CreatedOfType("SPREAD_10Y_2Y") :
               sp.value = y10.value - y2.value
          /\ \A y3 \in CreatedOfType("DGS3MO") : \A sp \in CreatedOfType("SPREAD_10Y_3M") :
               sp.value = y10.value - y3.value

\* C13: in what get_treasury_yields_and_spreads hands to the treasury save
\* routine, a spread is not None exactly when DGS10 and its other yield are
\* both not None; a missing yield does not make the client raise; and the
\* save routine creates no row for a spread that is None.
C13_SpreadIffBothOperands ==
  last.op = "treasury_data" =>
    /\ last.error # "client"
    /\ \A p \in {<<"spread_10y_2y", "dgs2", "SPREAD_10Y_2Y">>,
                 <<"spread_10y_3m", "dgs3mo", "SPREAD_10Y_3M">>} :
         /\ ~IsNone(get(last.data, p[1]))
              <=> (~IsNone(get(last.data, "dgs10")) /\ ~IsNone(get(last.data, p[2])))
         /\ IsNone(get(last.data, p[1])) => CreatedOfType(p[3]) = {}

\* C13's case: DGS10 came back and DGS2 did not; the call returned True,
\* stored the DGS10 row and no spread row
C13_Witness_MissingOperand ==
  /\ last.op = "treasury_data"
  /\ last.result = "True"
  /\ ~IsNone(get(last.data, "dgs10"))
  /\ IsNone(get(last.data, "dgs2"))
  /\ IsNone(get(last.data, "spread_10y_2y"))
  /\ CreatedOfType("DGS10") # {}
  /\ CreatedOfType("SPREAD_10Y_2Y") = {}

\* a find_by_type_and_date, delete or create of the last call raised
PersistenceFailed == last.error \in {"find", "delete", "create"}

\* C14: when find_by_type_and_date, delete or create raises inside a save
\* routine, the session is rolled back and fetch_and_store_* raises: it
\* never returns True for that call.
C14_FailureRollsBackAndPropagates ==
  (last.op # "none" /\ PersistenceFailed) =>
    (last.rolled_back /\ last.result = "raised" /\ last.result # "True")

\* a create raised after the call had already deleted and created rows
C14_Witness_FailedMidway ==
  /\ last.error = "create"
  /\ last.deleted # {}
  /\ last.created # {}
  /\ last.rolled_back
  /\ last.result = "raised"

\* the last call entered a save routine or a read accessor
SessionUsed == last.op # "none" /\ last.error # "client"

\* C15: every save routine and every read accessor has closed the
\* repository session when control returns, whether it succeeded or
\* raised.
C15_SessionClosedOnEveryPath ==
  SessionUsed => last.closed

\* a save routine whose delete raised after it had created a row left a
\* closed session
C15_Witness_ClosedAfterFailure ==
  /\ last.op = "treasury_data"
  /\ last.error = "delete"
  /\ last.created # {}
  /\ last.result = "raised"
  /\ last.closed

\* every orchestration the handler invoked returned True
NothingFailed == request.returned = request.invoked

\* C16: the POST handler invokes the orchestration of all six families
\* (PMI included) and, when none of them fails, answers status "success"
\* with one boolean per family.
C16_HandlerRefreshesSixFamilies ==
  (request.pc = Responded /\ NothingFailed) =>
    /\ request.invoked = {handler_calls[i] : i \in 1..Len(handler_calls)}
    /\ request.status = "success"
    /\ request.results = request.invoked

ReadAccessors == {"get_all_us_indicators", "get_all_china_indicators"}

\* the stored rows of a region whose date_time lies in [start, end]
InWindow(start, end, region) ==
  {r \in store : r.region = region /\ start <= r.date_time /\ r.date_time <= end}

\* C17: find_by_region_date_range(start, end, region), as the read
\* accessors call it, returns exactly the stored rows of the region with
\* start <= date_time <= end, in non-decreasing date_time order.
C17_RegionWindowQuery ==
  last.op \in ReadAccessors =>
    /\ ~IsNone(last.data.found)
    /\ LET rows == The(last.data.found) IN
         /\ {rows[i] : i \in DOMAIN rows} =
              InWindow(last.data.start_date, last.data.end_date, last.data.region)
         /\ Len(rows) = Cardinality({rows[i] : i \in DOMAIN rows})
         /\ \A i, j \in DOMAIN rows :
              i < j => rows[i].date_time <= rows[j].date_time

\* C18: a read accessor returns a mapping with at most one entry per
\* indicator type, the entry of a type being the row of that type with the
\* greatest date_time in the window.
C18_LatestRowPerType ==
  last.op \in ReadAccessors =>
    /\ ~IsNone(last.data.mapping)
    /\ LET mapping == The(last.data.mapping)
           rows == InWindow(last.data.start_date, last.data.end_date,
                            last.data.region)
       IN  /\ DOMAIN mapping = {r.type : r \in rows}
           /\ \A type \in DOMAIN mapping :
                /\ mapping[type] \in rows
                /\ mapping[type].type = type
                /\ \A r \in rows :
                     r.type = type => r.date_time <= mapping[type].date_time

Duplicated(rows) ==
  \E r1 \in rows, r2 \in rows :
    /\ r1.id # r2.id
    /\ r1.type = r2.type
    /\ Day(r1.date_time) = Day(r2.date_time)

\* C20: two concurrent calls of one family's orchestration on the same day
\* can interleave their find / delete / create so that two rows are stored
\* for one (type, day) (the witness); such a pair only ever arises from a
\* create whose lookup ran before the other row was created.
C20_DuplicateOnlyByInterleaving ==
  [][\A w \in Workers :
       (/\ calls[w].pc = "create"
        /\ calls'[w] # calls[w]
        /\ ~Duplicated(store)
        /\ Duplicated(store')) =>
         \A n \in store' \ store, r \in store :
           (r.type = n.type /\ Day(r.date_time) = Day(n.date_time)) =>
             r.id >= calls[w].looked_up_at]_vars

\* both callers have created their row: one (type, day) holds two rows
C20_Witness_TwoRowsForOneDay ==
  /\ Duplicated(store)
  /\ \A w \in Workers : calls[w].pc \in {"find", "done"}

\* C21: the upsert is not atomic: a row whose delete has committed is not
\* brought back when the create (or the float() that feeds it) fails
\* afterwards; the routine's rollback restores nothing and the data point
\* of that (type, day) is lost.
C21_DeletedRowNotRestored ==
  (last.op # "none" /\ last.result = "raised") =>
    \A r \in last.deleted : r \notin store

\* a create raised right after the delete of the old row: the (type, day)
\* of the old row has no row left
C21_Witness_DataPointLost ==
  /\ last.error = "create"
  /\ last.rolled_back
  /\ \E r \in last.deleted :
       /\ r \notin store
       /\ RowsOfPair(store, r) = {}

\* the methods that store scalar "latest" values
ScalarOps ==
  {"treasury_data", "consumer_indices", "financial_condition_indices",
   "commodity_prices", "crude_oil", "treasury_yield_3m"}

\* C22: every row stored for a scalar "latest" result is dated at the
\* invocation time (now) of the call that stored it, one row per result;
\* this includes the per-indicator fetch_and_store_<indicator>(start, end)
\* methods.
C22_ScalarRowsDatedNow ==
  last.op \in ScalarOps =>
    \A r \in store : r.id \in last.created => r.date_time = last.current_date

\* C23: no MacroDataService operation changes a field of an existing row:
\* a row that keeps its id over a step is the same row in every field, so
\* the table changes only by whole-row delete and whole-row create.
C23_RowsNeverMutated ==
  [][\A r \in store : \A q \in store' : q.id = r.id => q = r]_vars

\* a call superseded a stored row: the old row is gone as a whole and the
\* row in its place has another id
C23_Witness_SupersededByNewRow ==
  /\ last.result = "True"
  /\ \E r \in last.deleted :
       /\ r \notin store
       /\ \A q \in store : q.id # r.id
       /\ \E q \in RowsOfPair(store, r) : q.id \in last.created /\ q.value # r.value

\* C24: create inserts exactly one new row with a fresh id and leaves every
\* existing row unchanged, also when a row of the same type and calendar
\* day is already stored: it looks nothing up and removes no duplicate.
C24_CreateAddsOneRow ==
  [][nextId' # nextId =>
       /\ nextId' = nextId + 1
       /\ store \subseteq store'
       /\ Cardinality(store' \ store) = 1
       /\ \A n \in store' \ store :
            /\ n.id = nextId
            /\ \A r \in store : r.id # n.id]_vars

\* the repository holds two rows of one type on one day: the second create
\* was carried out next to the first row
C24_Witness_CreateNextToSameDayRow ==
  \E r \in store, n \in store :
    /\ r.id < n.id
    /\ r.type = n.type
    /\ Day(r.date_time) = Day(n.date_time)
    /\ r.creation_data_time <= n.creation_data_time

\* C25: when the table already holds two or more rows of one (type,
\* calendar day), a later sequential upsert for that pair does not make it
\* unique again: one row is found and deleted, one is created, and the pair
\* still has two or more rows.
C25_UpsertKeepsDuplicates ==
  [][(last.op = "none" /\ last'.op = "treasury_data" /\ last'.result = "True") =>
       \A r \in store :
         (/\ Cardinality(RowsOfPair(store, r)) >= 2
          /\ \E n \in store' \ store : n \in RowsOfPair(store', r)) =>
           /\ Cardinality(RowsOfPair(store, r) \ store') = 1
           /\ Cardinality(RowsOfPair(store', r) \ store) = 1
           /\ Cardinality(RowsOfPair(store', r)) >= 2]_vars

\* a refresh has replaced one of two rows of a (type, day): a row of the
\* old pair is still there next to the new one
C25_Witness_StillTwoRows ==
  /\ last.op = "treasury_data"
  /\ last.result = "True"
  /\ \E d \in last.deleted, n \in store, o \in store :
       /\ n.id \in last.created
       /\ o.id \notin last.created
       /\ n \in RowsOfPair(store, d)
       /\ o \in RowsOfPair(store, d)

\* C26: a save routine that fails at its k-th data point leaves the effects
\* of the first k-1 points in the table: every row it had created is
\* stored, every row it had deleted is gone, nothing else changed; the
\* rollback of the exception handler undoes none of it.
C26_PartialWorkSurvivesRollback ==
  [][(/\ last.op = "none"
      /\ last'.op \notin {"none"} \cup ReadAccessors
      /\ last'.result = "raised") =>
       /\ \A id \in last'.created : \E r \in store' : r.id = id
       /\ \A r \in store' \ store : r.id \in last'.created
       /\ store \ store' = last'.deleted \cap store
       /\ last'.error # "client" => last'.rolled_back]_vars

\* the leading-indicator routine raised after it had stored a row: the row
\* is in the table although the routine rolled back
C26_Witness_EarlierPointsKept ==
  /\ last.op = "leading_indicators"
  /\ last.result = "raised"
  /\ last.rolled_back
  /\ \E r \in store : r.id \in last.created

\* the families in the order the handler is to run them
FamilyOrder ==
  <<"leading_indicators", "consumer_indices", "financial_condition_indices",
    "treasury_data", "pmi_indicators", "commodity_prices">>

\* C27: the POST handler runs the families strictly in the order leading,
\* consumer, financial conditions, treasury, PMI, commodity; once one
\* raises no later family is attempted, the answer is a 500 error without
\* per-family flags, and the rows the earlier families stored stay.
C27_HandlerStopsAtFirstFailure ==
  /\ \E k \in 0..Len(FamilyOrder) :
       request.invoked = {FamilyOrder[i] : i \in 1..k}
  /\ request.returned \subseteq request.invoked
  /\ (request.returned # request.invoked \/ request.error # "") =>
       /\ request.pc = Responded
       /\ request.status = "500"
       /\ request.results = {}
       /\ Cardinality(request.invoked \ request.returned) <= 1
  /\ \A id \in request.created : \E r \in store : r.id = id

\* the consumer family raised after the leading family had stored a row:
\* the handler answered 500, later families were not attempted and the
\* row is stored
C27_Witness_EarlierFamilyRowsKept ==
  /\ request.status = "500"
  /\ request.invoked = {"leading_indicators", "consumer_indices"}
  /\ request.returned = {"leading_indicators"}
  /\ \E r \in store : r.id \in request.created /\ r.is_leading_indicator

\* C28: every row a MacroDataService write method creates has region "US"
\* (the Bundesbank index included); so, in a table written only through
\* the service, get_all_china_indicators returns an empty mapping for
\* every window.
C28_OnlyUsRowsAndEmptyChinaMapping ==
  /\ \A r \in store : r.region = "US"
  /\ last.op = "get_all_china_indicators" =>
       /\ last.result = "returned"
       /\ ~IsNone(last.data.mapping)
       /\ DOMAIN The(last.data.mapping) = {}

\* the rows of rows stored for type and the calendar day of date_time
RowsOfTypeAndDay(rows, type, date_time) ==
  {q \in rows : q.type = type /\ Day(q.date_time) = Day(date_time)}

\* a step that is one pass of the loop body
UpsertStep == last.op = "none" /\ last'.op = "upsert"

\* C29: an upsert for (type T, day D) leaves every stored row of another
\* type or of another calendar day as it was; it deletes at most one row,
\* and that row has type T and a date_time on day D.
C29_UpsertTouchesOnlyItsPair ==
  [][ UpsertStep =>
        /\ Cardinality(store \ store') <= 1
        /\ \A r \in store \ store' :
             /\ r.type = last'.data.type
             /\ Day(r.date_time) = Day(last'.data.date_time)
        /\ \A r \in store :
             (r.type # last'.data.type
              \/ Day(r.date_time) # Day(last'.data.date_time)) => r \in store' ]_vars

\* C29's case: an upsert deleted the row of its pair while the table held
\* a row of another type on the same day
C29_Witness_OtherTypeRowKept ==
  /\ last.op = "upsert"
  /\ last.deleted # {}
  /\ \E r \in store :
       /\ r.id \notin last.created
       /\ r.type # last.data.type
       /\ Day(r.date_time) = Day(last.data.date_time)

\* C30: a successful upsert on a table with at most one row for its (type,
\* day) leaves exactly one row for the pair, holding the value of this
\* upsert; so after upserts v1, ..., vn of one pair the row holds vn,
\* whatever the times of day of the upserts.
C30_LastWriteWins ==
  [][ (/\ UpsertStep
       /\ last'.result = "True"
       /\ Cardinality(RowsOfTypeAndDay(store, last'.data.type,
                                        last'.data.date_time)) <= 1)
      => \E r \in store' :
           /\ RowsOfTypeAndDay(store', last'.data.type, last'.data.date_time) = {r}
           /\ r.value = last'.data.value
           /\ r.date_time = last'.data.date_time ]_vars

\* C30's case: the second upsert of a pair came with another value and
\* another time of the same day than the first, whose row it replaced
C30_Witness_OverwrittenAtAnotherTime ==
  /\ last.op = "upsert"
  /\ last.result = "True"
  /\ \E d \in last.deleted :
       /\ d.value # last.data.value
       /\ d.date_time # last.data.date_time
       /\ RowsOfTypeAndDay(store, last.data.type, last.data.date_time) \subseteq
            {r \in store : r.id \in last.created}

====
